---- MODULE Spec2Model ----
(***************************************************************************)
(* A model of the document question-answering tool of the mortgage loan    *)
(* application pipeline (src/PDFQATool.py): PDFQATool._run, the input      *)
(* schema PDFQAToolInput it declares, and the remote provider it talks to  *)
(* (file upload, signed URL, chat completion).                             *)
(*                                                                         *)
(* A path is a sequence of one-character strings, so that urlparse,        *)
(* os.path.splitext, os.path.basename and str.lower are computed on the    *)
(* characters as the Python library computes them (POSIX path rules).      *)
(* The characters used are letters, digits, '.', '/', ':', '?' and '#'.    *)
(***************************************************************************)
EXTENDS Integers, Sequences, FiniteSets, TLC

(***************************************************************************)
(* Strings                                                                 *)
(***************************************************************************)

UpperChars == <<"A","B","C","D","E","F","G","H","I","J","K","L","M",
                "N","O","P","Q","R","S","T","U","V","W","X","Y","Z">>

LowerChars == <<"a","b","c","d","e","f","g","h","i","j","k","l","m",
                "n","o","p","q","r","s","t","u","v","w","x","y","z">>

DigitChars == <<"0","1","2","3","4","5","6","7","8","9">>

Range(s) == { s[k] : k \in DOMAIN s }

\* str.isalpha() of one ASCII character
IsAlpha(c) == c \in Range(UpperChars) \cup Range(LowerChars)

\* urllib.parse.scheme_chars: letters, digits and "+-."
SchemeChars == Range(UpperChars) \cup Range(LowerChars) \cup Range(DigitChars)
                 \cup {"+", "-", "."}

\* str.lower() of one character
LowerChar(c) ==
    IF c \in Range(UpperChars)
    THEN LowerChars[CHOOSE k \in DOMAIN UpperChars : UpperChars[k] = c]
    ELSE c

\* str.lower()
Lower(s) == [k \in DOMAIN s |-> LowerChar(s[k])]

\* str.find(c): the first index of c in s, 0 when c does not occur
\* (indices are 1-based here, Python's are 0-based with -1 for "not found")
Find(s, c) ==
    IF \E k \in DOMAIN s : s[k] = c
    THEN CHOOSE k \in DOMAIN s : s[k] = c /\ \A j \in 1..(k-1) : s[j] # c
    ELSE 0

\* str.rfind(c): the last index of c in s, 0 when c does not occur
RFind(s, c) ==
    IF \E k \in DOMAIN s : s[k] = c
    THEN CHOOSE k \in DOMAIN s : s[k] = c /\ \A j \in (k+1)..Len(s) : s[j] # c
    ELSE 0

\* s[k:] in Python terms with k 1-based: the suffix starting at index k
From(s, k) == SubSeq(s, k, Len(s))

\* s[:k-1] in Python terms with k 1-based: the prefix before index k
Before(s, k) == SubSeq(s, 1, k - 1)

\* the first index at or after `start` holding one of the characters `cs`,
\* Len(s)+1 when there is none (the `delim` of urllib.parse._splitnetloc)
FirstOf(s, cs, start) ==
    IF \E k \in start..Len(s) : s[k] \in cs
    THEN CHOOSE k \in start..Len(s) :
            s[k] \in cs /\ \A j \in start..(k-1) : s[j] \notin cs
    ELSE Len(s) + 1

\* urllib.parse.urlsplit, the scheme step: [scheme, rest]
SplitScheme(url) ==
    LET i == Find(url, ":")
    IN  IF /\ i > 1
           /\ IsAlpha(url[1])
           /\ \A k \in 1..(i-1) : url[k] \in SchemeChars
        THEN [scheme |-> Lower(Before(url, i)), rest |-> From(url, i + 1)]
        ELSE [scheme |-> <<>>, rest |-> url]

\* urllib.parse.urlsplit, the netloc step: what follows "//host"
StripNetloc(rest) ==
    IF Len(rest) >= 2 /\ rest[1] = "/" /\ rest[2] = "/"
    THEN From(rest, FirstOf(rest, {"/", "?", "#"}, 3))
    ELSE rest

\* urllib.parse.urlsplit, the fragment and query steps: the path component
StripQueryFragment(rest) ==
    LET noFrag == Before(rest, FirstOf(rest, {"#"}, 1))
    IN  Before(noFrag, FirstOf(noFrag, {"?"}, 1))

\* urlparse(path): the two components _run reads
urlparse(path) ==
    LET s == SplitScheme(path)
    IN  [scheme |-> s.scheme, path |-> StripQueryFragment(StripNetloc(s.rest))]

\* os.path.splitext(p)[1] (posixpath): the extension with its dot; a name
\* made of leading dots only has none
splitext(p) ==
    LET sepIndex == RFind(p, "/")
        dotIndex == RFind(p, ".")
    IN  IF dotIndex > sepIndex
           /\ \E k \in (sepIndex + 1)..(dotIndex - 1) : p[k] # "."
        THEN From(p, dotIndex)
        ELSE <<>>

\* os.path.basename(p) (posixpath): what follows the last '/'
basename(p) == From(p, RFind(p, "/") + 1)

(***************************************************************************)
(* Inputs                                                                  *)
(***************************************************************************)

\* "a.pdf": a local PDF
LocalPdf == <<"a", ".", "p", "d", "f">>

\* "d/b.PNG": a local image in a directory, upper-case extension
LocalPng == <<"d", "/", "b", ".", "P", "N", "G">>

\* "c.xyz": a local file of an unsupported type
LocalXyz == <<"c", ".", "x", "y", "z">>

\* "noext": a local file with no extension
LocalNoExt == <<"n", "o", "e", "x", "t">>

\* "ftp://h/g.pdf": a scheme other than http/https, so a local path
FtpPdf == <<"f", "t", "p", ":", "/", "/", "h", "/", "g", ".", "p", "d", "f">>

\* "http://h/d.pdf": a remote PDF
RemotePdf == <<"h", "t", "t", "p", ":", "/", "/", "h", "/", "d", ".", "p", "d", "f">>

\* "HTTPS://h/e.jpeg?f.gz": a remote image; upper-case scheme, a query
\* that ends in another extension
RemoteJpeg == <<"H", "T", "T", "P", "S", ":", "/", "/", "h", "/", "e", ".",
                "j", "p", "e", "g", "?", "f", ".", "g", "z">>

\* "https://h/x?y.jpg": a remote reference whose URL path has no extension
RemoteNoExt == <<"h", "t", "t", "p", "s", ":", "/", "/", "h", "/", "x", "?",
                 "y", ".", "j", "p", "g">>

\* the references a batch is made of
Catalogue == { LocalPdf, LocalPng, LocalXyz, LocalNoExt, FtpPdf,
               RemotePdf, RemoteJpeg, RemoteNoExt }

\* the references that pad a batch up to, and past, the schema's limit
PadPaths == { LocalPdf, RemoteJpeg }

\* the references of the batches of concurrent invocations
ConcPaths == { LocalPdf, RemoteJpeg, LocalXyz }

\* a batch is a mixed prefix of at most MaxMixed references followed by at
\* most MaxPad copies of one padding reference
MaxMixed == 2

MaxPad == 9

\* the longest batch of a concurrent invocation
MaxConc == 2

SeqsUpTo(S, n) == UNION { [1..k -> S] : k \in 0..n }

Batches ==
    { pre \o [k \in 1..n |-> x] :
        pre \in SeqsUpTo(Catalogue, MaxMixed), x \in PadPaths, n \in 0..MaxPad }

ConcBatches == SeqsUpTo(ConcPaths, MaxConc)

Questions == { "q1", "q2" }

\* the question each of the concurrent invocations asks
ConcQuestion == << "q1", "q2" >>

\* os.environ.get("MISTRAL_API_KEY"): unset (None), empty, or a key
Unset == "<None>"

EnvValues == { Unset, "", "sk" }

\* what client.chat.complete returns: the texts of its choices, in order
Responses == { <<>>, <<"ans1">>, <<"ans2", "ans1">> }

\* the invocations of _run on the one tool instance (MortgageCrew.PDFQATool)
Inv == { 1, 2 }

(***************************************************************************)
(* State                                                                   *)
(***************************************************************************)

VARIABLES
    environ,         \* the MISTRAL_API_KEY entry of the process environment
    provider_files,  \* the provider's storage: what has been uploaded, in order
    calls,           \* per invocation: its file reads and provider calls, in order
    pc,              \* per invocation: where it is in _run
    paths,           \* per invocation: the argument `paths`
    question,        \* per invocation: the argument `question`
    idx,             \* per invocation: the position of `path` in `paths`
    content_chunks,  \* per invocation: the local list content_chunks
    file_content,    \* per invocation: the local file_content
    upload_resp,     \* per invocation: upload_resp.id
    url_ref,         \* per invocation: the local url_ref
    chat_resp,       \* per invocation: the choices of chat_resp
    returned,        \* per invocation: the value returned, in a sequence
    raised,          \* per invocation: the exception raised, in a sequence
    file_uploader,   \* dashboard: the files held by the file_uploader widget
    session_state,   \* dashboard: st.session_state
    documents,       \* dashboard: the files written to ./documents
    app_pc,          \* dashboard: where the script run is
    crew_run,        \* dashboard: the crew run in progress (run_crew's `op`)
    executed,        \* dashboard: the tasks executed in this script run, in order
    displayed        \* dashboard: what this script run has put on the page

\* the state of the tool's invocations
toolvars == << environ, provider_files, calls, pc, paths, question, idx,
               content_chunks, file_content, upload_resp, url_ref, chat_resp,
               returned, raised >>

\* the state of the dashboard
appvars == << file_uploader, session_state, documents, app_pc, crew_run,
              executed, displayed >>

vars == << environ, provider_files, calls, pc, paths, question, idx,
           content_chunks, file_content, upload_resp, url_ref, chat_resp,
           returned, raised, file_uploader, session_state, documents, app_pc,
           crew_run, executed, displayed >>

locals == << file_content, upload_resp, url_ref, chat_resp >>

(***************************************************************************)
(* PDFQAToolInput and the values _run handles                              *)
(***************************************************************************)

\* Field(max_items=10) of PDFQAToolInput.paths
max_items == 10

\* PDFQAToolInput: the schema the tool declares as args_schema; `paths` has
\* an upper limit and no lower one. _run does not apply it.
PDFQAToolInput(ps) == Len(ps) <= max_items

\* supported_extensions
supported_extensions ==
    { <<".", "p", "d", "f">>, <<".", "j", "p", "g">>,
      <<".", "j", "p", "e", "g">>, <<".", "p", "n", "g">> }

\* a variant of is_url that knows https alone
is_urlHttpsOnly(path) ==
    urlparse(path).scheme \in { <<"h", "t", "t", "p", "s">> }

\* is_url = parsed.scheme in ("http", "https")
is_url(path) ==
    urlparse(path).scheme \in { <<"h", "t", "t", "p">>, <<"h", "t", "t", "p", "s">> }

\* ext: from the URL's path component for a URL, from the whole string for
\* a local path, lower-cased
ext(path) ==
    IF is_url(path)
    THEN Lower(splitext(urlparse(path).path))
    ELSE Lower(splitext(path))

\* a variant of the credential test: `if api_key is None`
NotApiKeyNoneOnly(api_key) == api_key = Unset

\* `if not api_key`: None and the empty string are both falsy
NotApiKey(api_key) == api_key = Unset \/ api_key = ""

\* content_chunks as first built: the question's text chunk alone
TextChunk(q) == [type |-> "text", text |-> q]

\* a variant of the chunk's tag with the two branches exchanged
UrlChunkSwapped(e, ref) ==
    IF e = <<".", "p", "d", "f">>
    THEN [type |-> "image_url", image_url |-> ref]
    ELSE [type |-> "document_url", document_url |-> ref]

\* the chunk appended for a reference: tagged by the extension
UrlChunk(e, ref) ==
    IF e = <<".", "p", "d", "f">>
    THEN [type |-> "document_url", document_url |-> ref]
    ELSE [type |-> "image_url", image_url |-> ref]

\* the bytes open(path, "rb").read() returns
FileBytes(path) == [bytes_of |-> path]

\* the file argument of client.files.upload
UploadFile(path, content) ==
    [file_name |-> basename(path), content |-> content, purpose |-> "ocr"]

\* the provider's identifier of its n-th stored file
FileId(n) == <<"f", DigitChars[(n \div 10) + 1], DigitChars[(n % 10) + 1]>>

\* the signed URL the provider issues for a stored file
SignedUrl(id) == <<"s", ":">> \o id

\* the request of client.chat.complete
ChatRequest(chunks) ==
    [model |-> "mistral-medium-latest",
     messages |-> << [role |-> "user", content |-> chunks] >>,
     temperature |-> 0]

\* the validation error of a schema; no line of _run raises it
ValidationError == [exc |-> "ValidationError", msg |-> "paths", detail |-> <<>>]

ConfigurationError ==
    [exc |-> "ValueError", msg |-> "MISTRAL_API_KEY must be set in the environment",
     detail |-> <<>>]

UnsupportedFileType(e) ==
    [exc |-> "ValueError", msg |-> "Unsupported file type", detail |-> e]

FileError(path) == [exc |-> "OSError", msg |-> "open", detail |-> path]

ProviderError(op) == [exc |-> "SDKError", msg |-> op, detail |-> <<>>]

IndexError == [exc |-> "IndexError", msg |-> "list index out of range", detail |-> <<>>]

\* one entry of the record of calls: the operation, the position in `paths` of
\* the reference it is made for (0 for the chat call), its argument, whether
\* it succeeded and, if so, what it answered
Call(op, k, arg, ok, resp) ==
    [op |-> op, ref |-> k, arg |-> arg, ok |-> ok, resp |-> resp]

\* a variant of the loop with the chat call and the return inside its body:
\* the first reference is resolved, then the chat call is made
ForNextInLoop(ps, k) == IF k = 1 /\ Len(ps) >= 1 THEN "validate" ELSE "chat"

\* the `for path in paths` step: the next reference, or the end of the loop
ForNext(ps, k) == IF k <= Len(ps) THEN "validate" ELSE "chat"

\* a variant of the loop that walks `paths` from its end
pathReversed(p) == paths[p][Len(paths[p]) + 1 - idx[p]]

\* the reference the loop is at
path(p) == paths[p][idx[p]]

\* a variant with content_chunks kept on the tool instance, which all
\* invocations share
ChunksOfInstance(p) == content_chunks[1]

\* the list content_chunks of an invocation: a local of its own call of _run
Chunks(p) == content_chunks[p]

\* a variant of the append: content_chunks.insert(0, chunk)
Prepended(chunks, chunk) == << chunk >> \o chunks

\* content_chunks.append(chunk)
Appended(chunks, chunk) == Append(chunks, chunk)

(***************************************************************************)
(* Init                                                                    *)
(***************************************************************************)

Init ==
    /\ environ \in EnvValues
    /\ provider_files = <<>>
    /\ calls = [p \in Inv |-> <<>>]
    /\ pc = [p \in Inv |-> "idle"]
    /\ paths = [p \in Inv |-> <<>>]
    /\ question = [p \in Inv |-> ""]
    /\ idx = [p \in Inv |-> 0]
    /\ content_chunks = [p \in Inv |-> <<>>]
    /\ file_content = [p \in Inv |-> <<>>]
    /\ upload_resp = [p \in Inv |-> <<>>]
    /\ url_ref = [p \in Inv |-> <<>>]
    /\ chat_resp = [p \in Inv |-> <<>>]
    /\ returned = [p \in Inv |-> <<>>]
    /\ raised = [p \in Inv |-> <<>>]
    /\ file_uploader = <<>>
    /\ session_state = [uploaded_files |-> <<>>, validation_result |-> <<>>,
                        processing_result |-> <<>>, file_paths |-> <<>>]
    /\ documents = {}
    /\ app_pc = "idle"
    /\ crew_run = [validation_only |-> FALSE, tasks_output |-> <<>>,
                   failed |-> FALSE]
    /\ executed = <<>>
    /\ displayed = {}

(***************************************************************************)
(* Actions                                                                 *)
(***************************************************************************)

\* a variant of a failure that is swallowed: the step is tried again
RaiseAndRetry(p, e) ==
    /\ raised' = raised
    /\ pc' = pc

\* `raise`: the exception leaves _run
Raise(p, e) ==
    /\ raised' = [raised EXCEPT ![p] = <<e>>]
    /\ pc' = [pc EXCEPT ![p] = "raised"]

\* Line 31: _run(paths, question) is entered with its arguments. Nothing in
\* _run looks at the number of paths.
ToolCall(p, ps, q) ==
    /\ pc[p] = "idle"
    /\ UNCHANGED appvars
    /\ paths' = [paths EXCEPT ![p] = ps]
    /\ question' = [question EXCEPT ![p] = q]
    /\ pc' = [pc EXCEPT ![p] = "getenv"]
    /\ UNCHANGED << environ, provider_files, calls, idx, content_chunks,
                    locals, returned, raised >>

\* Lines 33-41: the credential check, then content_chunks = [text chunk].
CheckCredential(p) ==
    /\ pc[p] = "getenv"
    /\ UNCHANGED appvars
    /\ IF NotApiKey(environ)
       THEN /\ Raise(p, ConfigurationError)
            /\ UNCHANGED << content_chunks, idx >>
       ELSE /\ content_chunks' = [content_chunks EXCEPT ![p] = << TextChunk(question[p]) >>]
            /\ idx' = [idx EXCEPT ![p] = 1]
            /\ pc' = [pc EXCEPT ![p] = ForNext(paths[p], 1)]
            /\ UNCHANGED raised
    /\ UNCHANGED << environ, provider_files, calls, paths, question, locals,
                    returned >>

\* Lines 43-57: parse the reference, check its extension, and for a URL
\* take it as url_ref.
Validate(p) ==
    /\ pc[p] = "validate"
    /\ UNCHANGED appvars
    /\ IF ext(path(p)) \notin supported_extensions
       THEN /\ Raise(p, UnsupportedFileType(ext(path(p))))
            /\ UNCHANGED url_ref
       ELSE IF is_url(path(p))
       THEN /\ url_ref' = [url_ref EXCEPT ![p] = path(p)]
            /\ pc' = [pc EXCEPT ![p] = "append"]
            /\ UNCHANGED raised
       ELSE /\ pc' = [pc EXCEPT ![p] = "open"]
            /\ UNCHANGED << url_ref, raised >>
    /\ UNCHANGED << environ, provider_files, calls, paths, question, idx,
                    content_chunks, file_content, upload_resp, chat_resp,
                    returned >>

\* Lines 60-61: open(path, "rb") and read; the file may be unreadable.
ReadFile(p) ==
    /\ pc[p] = "open"
    /\ UNCHANGED appvars
    /\ \E ok \in BOOLEAN :
        /\ calls' = [calls EXCEPT ![p] = Append(@, Call("open", idx[p], path(p), ok,
                                  IF ok THEN FileBytes(path(p)) ELSE <<>>))]
        /\ IF ok
           THEN /\ file_content' = [file_content EXCEPT ![p] = FileBytes(path(p))]
                /\ pc' = [pc EXCEPT ![p] = "upload"]
                /\ UNCHANGED raised
           ELSE /\ Raise(p, FileError(path(p)))
                /\ UNCHANGED file_content
    /\ UNCHANGED << environ, provider_files, paths, question, idx,
                    content_chunks, upload_resp, url_ref, chat_resp, returned >>

\* Lines 62-68: client.files.upload; the provider stores the file and
\* answers with its identifier, or the call fails.
Upload(p) ==
    /\ pc[p] = "upload"
    /\ UNCHANGED appvars
    /\ \E ok \in BOOLEAN :
        /\ calls' = [calls EXCEPT ![p] = Append(@, Call("files.upload", idx[p],
                                       UploadFile(path(p), file_content[p]), ok,
                                       IF ok THEN FileId(Len(provider_files) + 1)
                                             ELSE <<>>))]
        /\ IF ok
           THEN /\ provider_files' =
                       Append(provider_files, UploadFile(path(p), file_content[p]))
                /\ upload_resp' = [upload_resp EXCEPT ![p] = FileId(Len(provider_files) + 1)]
                /\ pc' = [pc EXCEPT ![p] = "sign"]
                /\ UNCHANGED raised
           ELSE /\ Raise(p, ProviderError("files.upload"))
                /\ UNCHANGED << provider_files, upload_resp >>
    /\ UNCHANGED << environ, paths, question, idx, content_chunks,
                    file_content, url_ref, chat_resp, returned >>

\* Line 70: client.files.get_signed_url(file_id=upload_resp.id).url
GetSignedUrl(p) ==
    /\ pc[p] = "sign"
    /\ UNCHANGED appvars
    /\ \E ok \in BOOLEAN :
        /\ calls' = [calls EXCEPT ![p] = Append(@, Call("files.get_signed_url", idx[p],
                                       upload_resp[p], ok,
                                       IF ok THEN SignedUrl(upload_resp[p]) ELSE <<>>))]
        /\ IF ok
           THEN /\ url_ref' = [url_ref EXCEPT ![p] = SignedUrl(upload_resp[p])]
                /\ pc' = [pc EXCEPT ![p] = "append"]
                /\ UNCHANGED raised
           ELSE /\ Raise(p, ProviderError("files.get_signed_url"))
                /\ UNCHANGED url_ref
    /\ UNCHANGED << environ, provider_files, paths, question, idx,
                    content_chunks, file_content, upload_resp, chat_resp,
                    returned >>

\* Lines 73-82: append the reference's chunk; then the loop moves on.
AppendChunk(p) ==
    /\ pc[p] = "append"
    /\ UNCHANGED appvars
    /\ content_chunks' = [content_chunks EXCEPT ![p] =
                             Appended(Chunks(p), UrlChunk(ext(path(p)), url_ref[p]))]
    /\ idx' = [idx EXCEPT ![p] = @ + 1]
    /\ pc' = [pc EXCEPT ![p] = ForNext(paths[p], idx[p] + 1)]
    /\ UNCHANGED << environ, provider_files, calls, paths, question, locals,
                    returned, raised >>

\* Lines 85-89: client.chat.complete with the one user message; the
\* provider answers with its choices, or the call fails.
ChatComplete(p) ==
    /\ pc[p] = "chat"
    /\ UNCHANGED appvars
    /\ \/ /\ calls' = [calls EXCEPT ![p] = Append(@, Call("chat.complete", 0,
                                         ChatRequest(Chunks(p)), FALSE, <<>>))]
          /\ Raise(p, ProviderError("chat.complete"))
          /\ UNCHANGED chat_resp
       \/ \E r \in Responses :
          /\ calls' = [calls EXCEPT ![p] = Append(@, Call("chat.complete", 0,
                                         ChatRequest(Chunks(p)), TRUE, r))]
          /\ chat_resp' = [chat_resp EXCEPT ![p] = r]
          /\ pc' = [pc EXCEPT ![p] = "return"]
          /\ UNCHANGED raised
    /\ UNCHANGED << environ, provider_files, paths, question, idx,
                    content_chunks, file_content, upload_resp, url_ref,
                    returned >>

\* Line 92: return chat_resp.choices[0].message.content
Return(p) ==
    /\ pc[p] = "return"
    /\ UNCHANGED appvars
    /\ IF chat_resp[p] = <<>>
       THEN /\ Raise(p, IndexError)
            /\ UNCHANGED returned
       ELSE /\ returned' = [returned EXCEPT ![p] = << chat_resp[p][1] >>]
            /\ pc' = [pc EXCEPT ![p] = "returned"]
            /\ UNCHANGED raised
    /\ UNCHANGED << environ, provider_files, calls, paths, question, idx,
                    content_chunks, locals >>

\* an invocation not yet made is made, with arguments drawn from `batches`
\* and `questions`
Invoke(p, batches, questions) ==
    /\ pc[p] = "idle"
    /\ \E ps \in batches, q \in questions : ToolCall(p, ps, q)

(***************************************************************************)
(* Specifications                                                          *)
(***************************************************************************)

\* one invocation, on any batch
Next ==
    \/ Invoke(1, Batches, Questions)
    \/ CheckCredential(1)
    \/ Validate(1)
    \/ ReadFile(1)
    \/ Upload(1)
    \/ GetSignedUrl(1)
    \/ AppendChunk(1)
    \/ ChatComplete(1)
    \/ Return(1)

Spec == Init /\ [][Next]_vars

\* the agents' invocations of the shared tool instance, interleaved
NextConc ==
    \/ \E p \in Inv : Invoke(p, ConcBatches, {ConcQuestion[p]})
    \/ \E p \in Inv : CheckCredential(p)
    \/ \E p \in Inv : Validate(p)
    \/ \E p \in Inv : ReadFile(p)
    \/ \E p \in Inv : Upload(p)
    \/ \E p \in Inv : GetSignedUrl(p)
    \/ \E p \in Inv : AppendChunk(p)
    \/ \E p \in Inv : ChatComplete(p)
    \/ \E p \in Inv : Return(p)

SpecConc == Init /\ [][NextConc]_vars

(***************************************************************************)
(* The crew and the dashboard                                              *)
(*                                                                         *)
(* None and a value v are written <<>> and <<v>>. A crew is the record of  *)
(* its agents, its tasks in order and its process. A script run of the     *)
(* dashboard goes from the top of app.py to its end, or to an exception    *)
(* that no handler catches; `executed` and `displayed` are what that run   *)
(* has executed and rendered so far.                                       *)
(***************************************************************************)

\* what a user holds in the uploader: nothing, one file, two files
Uploads == { <<>>, <<"id.pdf">>, <<"id.pdf", "payslip.pdf">> }

\* the names the validation task can list as missing
MissingDocuments == { <<>>, <<"payslip">> }
MissingFields == { <<>>, <<"income">> }

\* DocumentValidationResult: is_valid, missing_documents, missing_fields
DocumentValidationResult ==
    [is_valid : BOOLEAN, missing_documents : MissingDocuments,
     missing_fields : MissingFields]

\* MortgageCrew.crew(): the three agents and the three tasks, run in order
MortgageCrew_crew ==
    [agents |-> << "document_validator", "loan_processor", "underwriter" >>,
     tasks |-> << "validate_documents_task", "process_documents_task",
                  "underwriter_task" >>,
     process |-> "sequential"]

\* MortgageCrew.kickoff(inputs): the crew it kicks off, which is a crew of the
\* validation agent and task alone when inputs has validation_only true;
\* inputs is None or the dict of its one key
MortgageCrew_kickoff(inputs) ==
    IF (IF inputs # <<>> THEN inputs[1].validation_only ELSE FALSE)
    THEN [agents |-> << "document_validator" >>,
          tasks |-> << "validate_documents_task" >>,
          process |-> "sequential"]
    ELSE MortgageCrew_crew

\* app.py: crew = crew_instance.crew()
crew == MortgageCrew_crew

\* the .pydantic of a task's output: None when the task's text does not
\* parse into its output model
Pydantic(task) ==
    CASE task = "validate_documents_task" ->
            { <<>> } \cup { << v >> : v \in DocumentValidationResult }
      [] task = "process_documents_task" -> { <<>>, << "ApplicantData" >> }
      [] task = "underwriter_task" -> { <<>>, << "UnderwritingDecision" >> }

\* a crew run that has not started
NewRun(validation_only) ==
    [validation_only |-> validation_only, tasks_output |-> <<>>, failed |-> FALSE]

\* crew.kickoff has come to its end: a task raised, or every task has run
Done(o) == o.failed \/ Len(o.tasks_output) = Len(crew.tasks)

\* what run_crew returns: None after an exception, else a CrewResult with the
\* first output (validation_only) or the first three
run_crew(o) ==
    IF o.failed THEN <<>>
    ELSE IF o.validation_only
    THEN << [tasks_output |-> << o.tasks_output[1] >>] >>
    ELSE << [tasks_output |-> << o.tasks_output[1], o.tasks_output[2],
                                 o.tasks_output[3] >>] >>

\* run_crew's except branch: st.error("Failed to process: ...")
FailureShown(o) == IF o.failed THEN { "Failed to process" } ELSE {}

\* a variant of the validity test that never takes the error branch
NotValidNever(validation_data) == FALSE

\* `if not validation_data.is_valid`
NotValid(validation_data) == ~validation_data[1].is_valid

\* Lines 323-351: a script run starts with the uploader holding `files`.
\* The session keys are initialised if absent; a non-empty upload replaces
\* session_state['uploaded_files']; if that list is not empty its files are
\* written to ./documents and run_crew(validation_only=True) is called.
ScriptRun(files) ==
    /\ app_pc = "idle"
    /\ file_uploader' = files
    /\ executed' = <<>>
    /\ displayed' = {}
    /\ LET uploaded_files == IF files # <<>> THEN files
                             ELSE session_state.uploaded_files
       IN  /\ session_state' = [session_state EXCEPT
                                   !.uploaded_files = uploaded_files]
           /\ documents' = documents \cup Range(uploaded_files)
           /\ IF uploaded_files # <<>>
              THEN /\ app_pc' = "validation_run"
                   /\ crew_run' = NewRun(TRUE)
              ELSE /\ app_pc' = "validation_block"
                   /\ UNCHANGED crew_run
    /\ UNCHANGED toolvars

\* Line 45: crew.kickoff(inputs={'validation_only': ...}) runs the next task
\* of `crew`, in order; the task raises, or yields its output.
KickoffTask ==
    /\ app_pc \in { "validation_run", "processing_run" }
    /\ ~Done(crew_run)
    /\ LET task == crew.tasks[Len(crew_run.tasks_output) + 1]
       IN  /\ executed' = Append(executed,
                   [validation_only |-> crew_run.validation_only, task |-> task])
           /\ \/ crew_run' = [crew_run EXCEPT !.failed = TRUE]
              \/ \E o \in Pydantic(task) :
                     crew_run' = [crew_run EXCEPT !.tasks_output = Append(@, o)]
    /\ UNCHANGED << file_uploader, session_state, documents, app_pc, displayed >>
    /\ UNCHANGED toolvars

\* Lines 352-356: run_crew(validation_only=True) has returned; a result that
\* is not None is stored, with the paths of the files it was run for.
ValidationReturn ==
    /\ app_pc = "validation_run"
    /\ Done(crew_run)
    /\ LET validation_result == run_crew(crew_run)
       IN  session_state' =
               IF validation_result # <<>>
               THEN [session_state EXCEPT
                        !.validation_result = validation_result,
                        !.file_paths = session_state.uploaded_files]
               ELSE session_state
    /\ displayed' = displayed \cup FailureShown(crew_run)
    /\ app_pc' = "validation_block"
    /\ UNCHANGED << file_uploader, documents, crew_run, executed >>
    /\ UNCHANGED toolvars

\* Lines 358-398: with a validation result stored, its output is read; an
\* output of None ends the script run in an AttributeError, an output that is
\* not valid is reported, and a valid one starts run_crew(validation_only=False).
ValidationBlock ==
    /\ app_pc = "validation_block"
    /\ IF session_state.validation_result = <<>>
       THEN /\ app_pc' = "tabs"
            /\ UNCHANGED << displayed, crew_run >>
       ELSE LET validation_data ==
                    session_state.validation_result[1].tasks_output[1]
            IN  IF validation_data = <<>>
                THEN /\ app_pc' = "idle"
                     /\ displayed' = displayed \cup { "AttributeError" }
                     /\ UNCHANGED crew_run
                ELSE IF NotValid(validation_data)
                THEN /\ app_pc' = "tabs"
                     /\ displayed' = displayed \cup
                            { "Incomplete or invalid documents" }
                     /\ UNCHANGED crew_run
                ELSE /\ app_pc' = "processing_run"
                     /\ displayed' = displayed \cup
                            { "Documents validated successfully" }
                     /\ crew_run' = NewRun(FALSE)
    /\ UNCHANGED << file_uploader, session_state, documents, executed >>
    /\ UNCHANGED toolvars

\* Lines 396-398: run_crew(validation_only=False) has returned; a result that
\* is not None is stored.
ProcessingReturn ==
    /\ app_pc = "processing_run"
    /\ Done(crew_run)
    /\ LET processing_result == run_crew(crew_run)
       IN  session_state' =
               IF processing_result # <<>>
               THEN [session_state EXCEPT !.processing_result = processing_result]
               ELSE session_state
    /\ displayed' = displayed \cup FailureShown(crew_run)
    /\ app_pc' = "tabs"
    /\ UNCHANGED << file_uploader, documents, crew_run, executed >>
    /\ UNCHANGED toolvars

\* Lines 401-418: with a processing result stored the four result tabs are
\* rendered; an applicant or underwriting output of None raises inside them.
\* The script run then ends.
ResultTabs ==
    /\ app_pc = "tabs"
    /\ displayed' =
           IF session_state.processing_result = <<>> THEN displayed
           ELSE LET result == session_state.processing_result[1]
                IN  displayed \cup { "tabs" } \cup
                    (IF <<>> \in { result.tasks_output[2], result.tasks_output[3] }
                     THEN { "AttributeError" } ELSE {})
    /\ app_pc' = "idle"
    /\ UNCHANGED << file_uploader, session_state, documents, crew_run, executed >>
    /\ UNCHANGED toolvars

\* the script runs of one dashboard session
NextApp ==
    \/ \E files \in Uploads : ScriptRun(files)
    \/ KickoffTask
    \/ ValidationReturn
    \/ ValidationBlock
    \/ ProcessingReturn
    \/ ResultTabs

\* the session starts with a fresh session_state; no step of the script reads
\* the environment, so the sessions are taken with the credential set
InitApp == Init /\ environ = "sk"

SpecApp == InitApp /\ [][NextApp]_vars

(***************************************************************************)
(* Properties                                                              *)
(***************************************************************************)

\* the positions in an invocation's record of calls of the calls of `op`
CallsOf(p, op) == { j \in DOMAIN calls[p] : calls[p][j].op = op }

\* the calls that reach the provider
NetworkOps == { "files.upload", "files.get_signed_url", "chat.complete" }

NetworkCalls(p) == { j \in DOMAIN calls[p] : calls[p][j].op \in NetworkOps }

\* the extensions the tool accepts, as the specification lists them
AllowList ==
    { <<".", "p", "d", "f">>, <<".", "j", "p", "g">>,
      <<".", "j", "p", "e", "g">>, <<".", "p", "n", "g">> }

\* the catalogue's references whose extension, lower-cased, is outside the
\* allow-list or missing
BadRefs == { r \in Catalogue : ext(r) \notin AllowList }

\* the catalogue's references with scheme http or https
RemoteRefs == { RemotePdf, RemoteJpeg, RemoteNoExt }

HasBadRef(ps) == \E k \in DOMAIN ps : ps[k] \in BadRefs

\* no credential: the variable is unset or empty
NoCredential == environ \in { Unset, "" }

\* _run has been entered by invocation p
Entered(p) == pc[p] \notin { "idle" }

\* C1: a batch with an unsupported extension at any position fails with the
\* unsupported-file-type error and, up to that failure, has made no file
\* read, no upload, no signed-URL request and no inference call.
C1_UnsupportedBatchFailsBeforeAnyIO ==
    \A p \in Inv :
        (Entered(p) /\ ~NoCredential /\ HasBadRef(paths[p])) =>
            /\ calls[p] = <<>>
            /\ pc[p] # "returned"
            /\ pc[p] = "raised" => raised[p][1].msg = "Unsupported file type"

\* C2: a batch whose size is outside [1,10] fails with a validation error
\* before any network call: no upload, signed-URL or inference call is made
\* and nothing is returned.
C2_SizeOutsideRangeFailsBeforeAnyCall ==
    \A p \in Inv :
        (pc[p] # "idle" /\ (Len(paths[p]) < 1 \/ Len(paths[p]) > 10)) =>
            /\ NetworkCalls(p) = {}
            /\ pc[p] # "returned"
            /\ (pc[p] = "raised" /\ ~NoCredential) => raised[p][1] = ValidationError

\* the url a document or image chunk carries
ChunkUrl(c) == IF c.type = "document_url" THEN c.document_url ELSE c.image_url

\* the content of the user message of the chat call at position j
ChatContent(p, j) == calls[p][j].arg.messages[1].content

\* the calls that failed
FailedCalls(p) == { j \in DOMAIN calls[p] : ~calls[p][j].ok }

IsPrefix(a, b) == Len(a) <= Len(b) /\ a = SubSeq(b, 1, Len(a))

\* an invocation's calls as <<operation, position of the reference>>
OpsRefs(p) == [j \in DOMAIN calls[p] |-> << calls[p][j].op, calls[p][j].ref >>]

\* the calls of one linear pass over `ps` from position k on: for each
\* reference in input order nothing if it is remote, a read, an upload and a
\* signed-URL request if it is local; the pass stops at a reference whose
\* extension is not accepted, and otherwise ends with the one chat call
RECURSIVE ExpectedOps(_, _)
ExpectedOps(ps, k) ==
    IF k > Len(ps) THEN << << "chat.complete", 0 >> >>
    ELSE IF ps[k] \in BadRefs THEN << >>
    ELSE IF ps[k] \in RemoteRefs THEN ExpectedOps(ps, k + 1)
    ELSE << << "open", k >>, << "files.upload", k >>,
            << "files.get_signed_url", k >> >> \o ExpectedOps(ps, k + 1)

\* C3: an invocation that returns an answer has made exactly one chat call;
\* a chat call is never followed by another call, and it is made with every
\* reference of the batch resolved to a chunk.
C3_ExactlyOneInferenceCallPerAnswer ==
    \A p \in Inv :
        /\ Cardinality(CallsOf(p, "chat.complete")) <= 1
        /\ pc[p] = "returned" => Cardinality(CallsOf(p, "chat.complete")) = 1
        /\ \A j \in CallsOf(p, "chat.complete") :
            /\ j = Len(calls[p])
            /\ idx[p] = Len(paths[p]) + 1
            /\ Len(ChatContent(p, j)) = Len(paths[p]) + 1

\* an answer returned for a batch of 10 that mixes local and remote references
C3_Witness ==
    /\ pc[1] = "returned"
    /\ Len(paths[1]) = 10
    /\ \E k \in DOMAIN paths[1] : paths[1][k] \in RemoteRefs
    /\ \E k \in DOMAIN paths[1] : paths[1][k] \notin RemoteRefs
    /\ Cardinality(CallsOf(1, "chat.complete")) = 1

\* C4: in every chat request the first chunk is the text chunk with the
\* question, and every chunk after it is a document_url or image_url chunk.
C4_QuestionChunkFirst ==
    \A p \in Inv : \A j \in CallsOf(p, "chat.complete") :
        LET c == ChatContent(p, j)
        IN  /\ Len(c) >= 1
            /\ c[1] = TextChunk(question[p])
            /\ \A k \in 2..Len(c) : c[k].type \in { "document_url", "image_url" }

\* a chat request for a batch with an image before a PDF
C4_Witness ==
    \E j \in CallsOf(1, "chat.complete") :
        /\ Len(ChatContent(1, j)) >= 3
        /\ ChatContent(1, j)[1].type = "text"
        /\ ChatContent(1, j)[2].type = "image_url"
        /\ ChatContent(1, j)[3].type = "document_url"

\* C5: when an answer is returned, each local reference has exactly one
\* upload call, directly followed by its one signed-URL request; each remote
\* reference has no call at all and its chunk carries the URL as given; so
\* uploads = signed-URL requests = local references, with multiplicity.
C5_UploadsMatchLocalReferences ==
    \A p \in Inv : pc[p] = "returned" =>
        LET local == { k \in DOMAIN paths[p] : paths[p][k] \notin RemoteRefs }
            chat == CHOOSE j \in CallsOf(p, "chat.complete") : TRUE
        IN  /\ Cardinality(CallsOf(p, "files.upload")) = Cardinality(local)
            /\ Cardinality(CallsOf(p, "files.get_signed_url")) = Cardinality(local)
            /\ \A k \in local :
                /\ Cardinality({ j \in CallsOf(p, "files.upload") :
                                    calls[p][j].ref = k }) = 1
                /\ Cardinality({ j \in CallsOf(p, "files.get_signed_url") :
                                    calls[p][j].ref = k }) = 1
                /\ \A j \in CallsOf(p, "files.upload") :
                        calls[p][j].ref = k =>
                            /\ j + 1 \in CallsOf(p, "files.get_signed_url")
                            /\ calls[p][j + 1].ref = k
            /\ \A k \in DOMAIN paths[p] \ local :
                /\ \A j \in DOMAIN calls[p] : calls[p][j].ref # k
                /\ ChunkUrl(ChatContent(p, chat)[k + 1]) = paths[p][k]

\* the answer to the batch ["a.pdf", "HTTPS://h/e.jpeg?f.gz"]
C5_Witness ==
    /\ pc[1] = "returned"
    /\ paths[1] = << LocalPdf, RemoteJpeg >>
    /\ Cardinality(CallsOf(1, "files.upload")) = 1

\* C6: with no credential in the environment no file is read and no upload,
\* signed-URL or chat call is made, whatever the batch; _run ends with the
\* configuration error.
C6_MissingCredentialFailsBeforeAnyIO ==
    NoCredential =>
        /\ provider_files = <<>>
        /\ \A p \in Inv :
            /\ calls[p] = <<>>
            /\ pc[p] \in { "idle", "getenv", "raised" }
            /\ pc[p] = "raised" => raised[p] = << ConfigurationError >>

\* the configuration error for a batch that also holds an unsupported
\* reference, the variable being set but empty
C6_Witness ==
    /\ environ = ""
    /\ pc[1] = "raised"
    /\ raised[1] = << ConfigurationError >>
    /\ HasBadRef(paths[1])

\* the tag the chunk of a reference must carry
ExpectedTag(r) ==
    IF ext(r) = <<".", "p", "d", "f">> THEN "document_url" ELSE "image_url"

\* the url is that of reference r: r itself if r is remote, else the signed
\* URL of a stored file that is r's upload
RefersTo(url, r) ==
    IF r \in RemoteRefs
    THEN url = r
    ELSE \E n \in DOMAIN provider_files :
            /\ url = SignedUrl(FileId(n))
            /\ provider_files[n] = UploadFile(r, FileBytes(r))

\* C7: the content of the chat request is the question's text chunk followed
\* by one chunk per element of paths, in input order: len(paths)+1 chunks,
\* the chunk of paths[k] tagged document_url for pdf and image_url for jpg,
\* jpeg and png, and referring to paths[k].
C7_MessageFollowsInputOrder ==
    \A p \in Inv : \A j \in CallsOf(p, "chat.complete") :
        LET c == ChatContent(p, j)
        IN  /\ Len(c) = Len(paths[p]) + 1
            /\ c[1] = TextChunk(question[p])
            /\ \A k \in DOMAIN paths[p] :
                /\ ext(paths[p][k]) \in AllowList
                /\ c[k + 1].type = ExpectedTag(paths[p][k])
                /\ RefersTo(ChunkUrl(c[k + 1]), paths[p][k])

\* the chat request for ["d/b.PNG", "ftp://h/g.pdf", ...]
C7_Witness ==
    \E j \in CallsOf(1, "chat.complete") :
        /\ Len(paths[1]) >= 3
        /\ paths[1][1] = LocalPng
        /\ paths[1][2] = FtpPdf
        /\ Len(ChatContent(1, j)) = Len(paths[1]) + 1

\* the exception a failed call raises
ErrorOf(c) == IF c.op = "open" THEN FileError(c.arg) ELSE ProviderError(c.op)

\* C8: a failed read, upload or signed-URL request is the invocation's last
\* call: its error is what _run raises, nothing is returned, no step is
\* repeated, no later reference is touched and no chat call is made; an
\* answer is returned only with every reference resolved and no call failed.
C8_AllOrNothing ==
    \A p \in Inv :
        /\ ~(returned[p] # <<>> /\ raised[p] # <<>>)
        /\ returned[p] # <<>> =>
            /\ FailedCalls(p) = {}
            /\ Len(content_chunks[p]) = Len(paths[p]) + 1
        /\ \A j \in FailedCalls(p) :
            /\ j = Len(calls[p])
            /\ pc[p] = "raised"
            /\ raised[p] = << ErrorOf(calls[p][j]) >>
            /\ returned[p] = <<>>
            /\ calls[p][j].op # "chat.complete" =>
                /\ CallsOf(p, "chat.complete") = {}
                /\ idx[p] = calls[p][j].ref
                /\ \A i \in DOMAIN calls[p] : calls[p][i].ref <= calls[p][j].ref
                /\ Len(content_chunks[p]) = calls[p][j].ref
        /\ \A i, j \in DOMAIN calls[p] :
            (calls[p][i].op = calls[p][j].op /\ calls[p][i].ref = calls[p][j].ref)
                => i = j

\* the upload of the second of three or more references fails
C8_Witness ==
    \E j \in FailedCalls(1) :
        /\ calls[1][j].op = "files.upload"
        /\ calls[1][j].ref = 2
        /\ Len(paths[1]) >= 3
        /\ Len(calls[1]) >= 5
        /\ pc[1] = "raised"

\* the url of the chunk of an invocation's k-th reference, from its own
\* calls: the reference itself if remote, else the answer to its own
\* signed-URL request for that reference
OwnUrl(p, k) ==
    IF paths[p][k] \in RemoteRefs
    THEN paths[p][k]
    ELSE calls[p][CHOOSE j \in CallsOf(p, "files.get_signed_url") :
                        calls[p][j].ref = k].resp

\* the first n chunks of an invocation, from its own arguments and calls
OwnChunks(p, n) ==
    [k \in 1..n |-> IF k = 1 THEN TextChunk(question[p])
                    ELSE UrlChunk(ext(paths[p][k - 1]), OwnUrl(p, k - 1))]

\* C9: with invocations of the one tool instance interleaved, each
\* invocation's calls are those of a pass over its own paths, each call's
\* argument comes from its own arguments and its own earlier calls, its chat
\* request holds its own question and the chunks of its own paths, and what
\* it returns is the first choice of its own chat call.
C9_InvocationsAreIndependent ==
    \A p \in Inv :
        /\ IsPrefix(OpsRefs(p), ExpectedOps(paths[p], 1))
        /\ Len(content_chunks[p]) <= Len(paths[p]) + 1
        /\ \A k \in 2..Len(content_chunks[p]) :
                paths[p][k - 1] \notin RemoteRefs =>
                    \E j \in CallsOf(p, "files.get_signed_url") : calls[p][j].ref = k - 1
        /\ content_chunks[p] = OwnChunks(p, Len(content_chunks[p]))
        /\ \A j \in DOMAIN calls[p] :
            LET c == calls[p][j]
            IN  /\ c.op = "open" => c.arg = paths[p][c.ref]
                /\ c.op = "files.upload" =>
                        c.arg = UploadFile(paths[p][c.ref], calls[p][j - 1].resp)
                /\ c.op = "files.get_signed_url" => c.arg = calls[p][j - 1].resp
                /\ c.op = "chat.complete" =>
                        c.arg.messages[1].content = OwnChunks(p, Len(paths[p]) + 1)
        /\ returned[p] # <<>> =>
            returned[p] = << calls[p][Len(calls[p])].resp[1] >>

\* both invocations are under way at once, each with a local file uploaded:
\* the second has its two chunks, the first awaits its signed URL
C9_Witness ==
    /\ pc[1] = "sign"
    /\ pc[2] = "chat"
    /\ paths[1] = << RemoteJpeg, LocalPdf >>
    /\ paths[2] = << LocalPdf >>
    /\ Len(provider_files) = 2
    /\ upload_resp[1] = FileId(2)

\* C10: the calls of an invocation are a prefix of the one linear pass over
\* its paths (per reference in input order: read, upload, signed URL; the
\* chat call last), the whole pass when an answer is returned; no call is
\* made for a reference the loop has not reached, and the loop holds one
\* chunk per reference before the one it is at.
C10_LinearPass ==
    \A p \in Inv :
        /\ IsPrefix(OpsRefs(p), ExpectedOps(paths[p], 1))
        /\ pc[p] = "returned" => OpsRefs(p) = ExpectedOps(paths[p], 1)
        /\ \A j \in DOMAIN calls[p] :
            /\ calls[p][j].op = "open" => calls[p][j].arg = paths[p][calls[p][j].ref]
            /\ calls[p][j].op # "chat.complete" => calls[p][j].ref <= idx[p]
        /\ pc[p] \in { "validate", "open", "upload", "sign", "append" } =>
            /\ idx[p] \in DOMAIN paths[p]
            /\ Len(content_chunks[p]) = idx[p]
        /\ pc[p] \in { "chat", "return", "returned" } =>
            /\ idx[p] = Len(paths[p]) + 1
            /\ Len(content_chunks[p]) = Len(paths[p]) + 1

\* an answer returned after a pass over at least two local references and a
\* remote one
C10_Witness ==
    /\ pc[1] = "returned"
    /\ Len(paths[1]) >= 3
    /\ paths[1][1] \in RemoteRefs
    /\ Cardinality(CallsOf(1, "files.upload")) >= 2
    /\ OpsRefs(1) = ExpectedOps(paths[1], 1)

\* the inference-error outcome: the provider's own error of the chat call,
\* propagated to the caller
InferenceError == ProviderError("chat.complete")

\* the chat call of an invocation that has ended, if it made one
EndedAfterChat(p) ==
    { j \in CallsOf(p, "chat.complete") : pc[p] \in { "returned", "raised" } }

\* C11: an invocation whose chat call failed, or answered with no choices,
\* ends in the inference error and returns no text; an invocation whose chat
\* call answered with at least one choice returns exactly the content of the
\* first choice.
C11_InferenceFailureOrFirstChoice ==
    \A p \in Inv : \A j \in EndedAfterChat(p) :
        IF ~calls[p][j].ok \/ calls[p][j].resp = <<>>
        THEN /\ raised[p] = << InferenceError >>
             /\ returned[p] = <<>>
        ELSE /\ returned[p] = << calls[p][j].resp[1] >>
             /\ raised[p] = <<>>

\* the part of C11 the code keeps: a failed chat call ends in the provider's
\* error with nothing returned, an empty list of choices ends in some error
\* with nothing returned, and otherwise the first choice's content is returned
C11_NoAnswerWithoutChoice ==
    \A p \in Inv : \A j \in EndedAfterChat(p) :
        /\ ~calls[p][j].ok => raised[p] = << InferenceError >> /\ returned[p] = <<>>
        /\ (calls[p][j].ok /\ calls[p][j].resp = <<>>) =>
               pc[p] = "raised" /\ returned[p] = <<>>
        /\ (calls[p][j].ok /\ calls[p][j].resp # <<>>) =>
               returned[p] = << calls[p][j].resp[1] >> /\ raised[p] = <<>>

\* the chat call answered with no choices and the invocation ended in the
\* IndexError of `choices[0]`
C11_EmptyChoices ==
    \E j \in EndedAfterChat(1) :
        /\ calls[1][j].ok
        /\ calls[1][j].resp = <<>>
        /\ raised[1] = << IndexError >>

\* the tasks a run of the dashboard has executed so far in this script run
TasksOfRun(validation_only) ==
    { executed[j].task : j \in { i \in DOMAIN executed :
                                   executed[i].validation_only = validation_only } }

\* C12: a validation-only run of the dashboard executes only the tasks that
\* MortgageCrew.kickoff runs for validation_only = true, which is the
\* document-validation task alone: the loan-processing and the underwriting
\* task are never executed in such a run.
C12_ValidationOnlyRunsValidationAlone ==
    /\ TasksOfRun(TRUE) \subseteq
           Range(MortgageCrew_kickoff(<< [validation_only |-> TRUE] >>).tasks)
    /\ TasksOfRun(TRUE) \cap { "process_documents_task", "underwriter_task" } = {}

\* a validation-only run that has executed all three tasks of the crew
C12_ValidationRunExecutesAllTasks ==
    /\ app_pc = "validation_run"
    /\ crew_run.validation_only
    /\ TasksOfRun(TRUE) = Range(MortgageCrew_crew.tasks)

\* run_crew(validation_only=False) has been started in this script run
ProcessingStarted ==
    \/ app_pc = "processing_run"
    \/ \E j \in DOMAIN executed : ~executed[j].validation_only

\* the validation result stored in the session is there, has an output, and
\* the output's is_valid is true
StoredValidationIsValid ==
    /\ session_state.validation_result # <<>>
    /\ session_state.validation_result[1].tasks_output[1] # <<>>
    /\ session_state.validation_result[1].tasks_output[1][1].is_valid

\* C13: over the script runs of a session, the full processing run is started
\* only in a script run in which the session holds a validation result whose
\* is_valid is true; it is not started while no validation has succeeded, nor
\* while the stored result is the one the dashboard reports as incomplete
\* (is_valid false).
C13_ProcessingOnlyAfterValidValidation ==
    ProcessingStarted => StoredValidationIsValid

\* the processing run has executed its three tasks, with a valid validation
\* result in the session
C13_Witness ==
    /\ app_pc = "processing_run"
    /\ Done(crew_run)
    /\ ~crew_run.failed
    /\ TasksOfRun(FALSE) = Range(crew.tasks)
    /\ StoredValidationIsValid

\* the processing run started from a valid result stored by an earlier script
\* run, after the validation run of this script run failed
C13_StaleValidation ==
    /\ app_pc = "processing_run"
    /\ "Failed to process" \in displayed
    /\ StoredValidationIsValid

\* C14: the result tabs are on the page only if the validation result now
\* stored in the session has is_valid true; a processing result kept from an
\* earlier valid upload is not shown once a later validation has reported
\* the documents invalid.
C14_TabsOnlyWhileValidationValid ==
    "tabs" \in displayed => StoredValidationIsValid

\* the page shows the report of incomplete documents of the stored
\* validation result together with the result tabs of an earlier upload
C14_StaleTabsShown ==
    /\ app_pc = "idle"
    /\ { "tabs", "Incomplete or invalid documents" } \subseteq displayed
    /\ session_state.processing_result # <<>>
    /\ ~StoredValidationIsValid

====
